---- MODULE Spec2Model ----
(***************************************************************************)
(* Domain expiry checker (src/app.py): a store of tracked domain names,    *)
(* the HTTP handlers that list / add / delete them, and the resolution of  *)
(* one domain through the system whois command.                            *)
(*                                                                         *)
(* Text is modelled by TLA+ strings, read character by character with      *)
(* SubSeq.  The source's Chinese message texts and its two Chinese expiry  *)
(* keywords are written here as ASCII stand-ins placed between '<' and     *)
(* '>'; no input of the model contains these characters.                   *)
(***************************************************************************)
EXTENDS Integers, Sequences, FiniteSets, TLC

VARIABLES
    store,           \* rows of table domains, in rowid order: <<[id, name], ...>>
    nextId,          \* the id AUTOINCREMENT gives the next inserted row
    today,           \* the UTC calendar date of the wall clock: [y, m, d]
    pc,              \* position of the GET /api/domains handler
    stored_domains,  \* get_domains: the rows fetched at the start of the request
    results,         \* get_domains: the list built so far
    observed,        \* what the whois subprocess did for each resolved row
    response,        \* the last response of GET /api/domains
    post,            \* the last response of POST /api/domains
    output,          \* parse_expiry_from_whois_output: its argument
    parsed           \* parse_expiry_from_whois_output: its return value

vars == <<store, nextId, today, pc, stored_domains, results, observed,
          response, post, output, parsed>>

-----------------------------------------------------------------------------
(* Python values *)

\* Python's None.  No text handled by the model is equal to it.
None == "None"

\* The outcome of a call: a returned value or a raised exception.
Return(v) == [kind |-> "return", value |-> v]
Raise(type, msg) == [kind |-> "raise", type |-> type, msg |-> msg]

-----------------------------------------------------------------------------
(* str methods *)

Char(s, i) == SubSeq(s, i, i)

Digits == "0123456789"
UpperCase == "ABCDEFGHIJKLMNOPQRSTUVWXYZ"
LowerCase == "abcdefghijklmnopqrstuvwxyz"
Whitespace == {" ", "\t", "\n", "\r"}

IsDigit(c) == \E k \in 1..Len(Digits) : Char(Digits, k) = c

LowerChar(c) ==
    IF \E k \in 1..Len(UpperCase) : Char(UpperCase, k) = c
    THEN Char(LowerCase, CHOOSE k \in 1..Len(UpperCase) : Char(UpperCase, k) = c)
    ELSE c

\* s.lower()
RECURSIVE str_lower(_)
str_lower(s) ==
    IF s = "" THEN "" ELSE LowerChar(Char(s, 1)) \o str_lower(SubSeq(s, 2, Len(s)))

\* s.find(sub), 1-based; 0 when sub does not occur
str_find(s, sub) ==
    LET at == {i \in 1..(Len(s) - Len(sub) + 1) : SubSeq(s, i, i + Len(sub) - 1) = sub}
    IN  IF at = {} THEN 0 ELSE CHOOSE i \in at : \A j \in at : i <= j

\* sub in s
str_contains(s, sub) == str_find(s, sub) # 0

\* s.split(sep): the list of the pieces between the occurrences of sep
RECURSIVE str_split(_, _)
str_split(s, sep) ==
    LET i == str_find(s, sep)
    IN  IF i = 0 THEN <<s>>
        ELSE <<SubSeq(s, 1, i - 1)>> \o str_split(SubSeq(s, i + Len(sep), Len(s)), sep)

\* s.replace(old, new): the non-overlapping occurrences, from the left
RECURSIVE str_replace(_, _, _)
str_replace(s, old, new) ==
    LET i == str_find(s, old)
    IN  IF i = 0 THEN s
        ELSE SubSeq(s, 1, i - 1) \o new
                 \o str_replace(SubSeq(s, i + Len(old), Len(s)), old, new)

\* s.strip()
RECURSIVE str_strip(_)
str_strip(s) ==
    IF s = "" THEN ""
    ELSE IF Char(s, 1) \in Whitespace THEN str_strip(SubSeq(s, 2, Len(s)))
    ELSE IF Char(s, Len(s)) \in Whitespace THEN str_strip(SubSeq(s, 1, Len(s) - 1))
    ELSE s

\* int(s) of a string of ASCII digits
RECURSIVE str_int(_)
str_int(s) ==
    IF s = "" THEN 0
    ELSE 10 * str_int(SubSeq(s, 1, Len(s) - 1))
           + ((CHOOSE k \in 1..Len(Digits) : Char(Digits, k) = Char(s, Len(s))) - 1)

-----------------------------------------------------------------------------
(* re: the four date patterns.  A pattern is written as a string in which   *)
(* the letter d stands for \d and every other character for itself (the     *)
(* source escapes the dot, so '.' is a literal too).                         *)

AtomMatches(a, c) == IF a = "d" THEN IsDigit(c) ELSE a = c

\* re.match(pattern, s): whether the pattern matches at the start of s
re_match(pattern, s) ==
    /\ Len(s) >= Len(pattern)
    /\ \A k \in 1..Len(pattern) : AtomMatches(Char(pattern, k), Char(s, k))

\* re.search(pattern, s): the text of the leftmost match, or None
re_search(pattern, s) ==
    LET at == {i \in 1..(Len(s) - Len(pattern) + 1) :
                   re_match(pattern, SubSeq(s, i, Len(s)))}
    IN  IF at = {} THEN None
        ELSE LET i == CHOOSE i \in at : \A j \in at : i <= j
             IN  SubSeq(s, i, i + Len(pattern) - 1)

-----------------------------------------------------------------------------
(* parse_expiry_from_whois_output *)

expiry_keywords ==
    << "expire", "expiration", "registry exp", "paid-till",
       "<guoqi shijian>", "<guoqi riqi>", "expiry date", "renewal date" >>

date_patterns == << "dddd-dd-dd", "dd-dd-dddd", "dd/dd/dddd", "dddd.dd.dd" >>

\* any(kw in line_lower for kw in expiry_keywords)
has_expiry_keyword(line) ==
    LET line_lower == str_lower(line)
    IN  \E k \in 1..Len(expiry_keywords) : str_contains(line_lower, expiry_keywords[k])

\* The if/elif chain on the matched text.  NoReturn: no branch returned, and
\* the loop over the patterns goes on.
NoReturn == "NoReturn"

normalize_match(date_str) ==
    IF re_match(date_patterns[1], date_str) THEN date_str
    ELSE IF re_match(date_patterns[2], date_str)
    THEN LET parts == str_split(date_str, "-")
         IN  parts[3] \o "-" \o parts[1] \o "-" \o parts[2]
    ELSE IF re_match(date_patterns[3], date_str)
    THEN LET parts == str_split(date_str, "/")
         IN  parts[3] \o "-" \o parts[1] \o "-" \o parts[2]
    ELSE IF re_match(date_patterns[4], date_str)
    THEN str_replace(date_str, ".", "-")
    ELSE NoReturn

\* for pattern in date_patterns, from the k-th pattern on
RECURSIVE scan_patterns(_, _)
scan_patterns(line, k) ==
    IF k > Len(date_patterns) THEN NoReturn
    ELSE LET match == re_search(date_patterns[k], line)
             returned == normalize_match(match)
         IN  IF match # None /\ returned # NoReturn
             THEN returned
             ELSE scan_patterns(line, k + 1)

\* The mutant of scan_lines: the scan gives up on the first keyword line.
RECURSIVE scan_lines_first_keyword_only(_, _)
scan_lines_first_keyword_only(lines, i) ==
    IF i > Len(lines) THEN None
    ELSE IF has_expiry_keyword(lines[i])
    THEN LET returned == scan_patterns(lines[i], 1)
         IN  IF returned # NoReturn THEN returned ELSE None
    ELSE scan_lines_first_keyword_only(lines, i + 1)

\* for line in lines, from the i-th line on; return None after the loop
RECURSIVE scan_lines(_, _)
scan_lines(lines, i) ==
    IF i > Len(lines) THEN None
    ELSE LET returned == IF has_expiry_keyword(lines[i])
                         THEN scan_patterns(lines[i], 1) ELSE NoReturn
         IN  IF returned # NoReturn THEN returned ELSE scan_lines(lines, i + 1)

parse_expiry_from_whois_output(text) == scan_lines(str_split(text, "\n"), 1)

-----------------------------------------------------------------------------
(* datetime *)

IsLeap(y) == (y % 4 = 0) /\ ((y % 100 # 0) \/ (y % 400 = 0))

DaysInMonth(y, m) ==
    IF m = 2 THEN (IF IsLeap(y) THEN 29 ELSE 28)
    ELSE IF m \in {4, 6, 9, 11} THEN 30 ELSE 31

RECURSIVE DaysBeforeMonth(_, _)
DaysBeforeMonth(y, m) ==
    IF m = 1 THEN 0 ELSE DaysBeforeMonth(y, m - 1) + DaysInMonth(y, m - 1)

\* date.toordinal(): the day number of a calendar date, 0001-01-01 being day 1
toordinal(date) ==
    LET y == date.y - 1
    IN  y * 365 + (y \div 4) - (y \div 100) + (y \div 400)
          + DaysBeforeMonth(date.y, date.m) + date.d

\* datetime.strptime(date_str, '%Y-%m-%d') for a text of the shape dddd-dd-dd,
\* the only shape parse_expiry_from_whois_output returns
strptime(date_str) ==
    LET y == str_int(SubSeq(date_str, 1, 4))
        m == str_int(SubSeq(date_str, 6, 7))
        d == str_int(SubSeq(date_str, 9, 10))
    IN  IF y >= 1 /\ m \in 1..12 /\ d >= 1 /\ d <= DaysInMonth(y, m)
        THEN Return([y |-> y, m |-> m, d |-> d])
        ELSE Raise("ValueError", "time data '" \o date_str
                                   \o "' does not match format '%Y-%m-%d'")

\* The attributes of class datetime.timezone: it has utc, and no UTC.
timezone_attributes == {"utc", "min", "max", "utcoffset", "tzname", "dst", "fromutc"}

\* timezone.<name>
timezone_getattr(name) ==
    IF name \in timezone_attributes THEN Return(name)
    ELSE Raise("AttributeError",
               "type object 'datetime.timezone' has no attribute '" \o name \o "'")

\* now = datetime.now(timezone.UTC), followed by now.date()
datetime_now(clock) ==
    LET tz == timezone_getattr("UTC")
    IN  IF tz.kind = "raise" THEN tz ELSE Return(clock)

-----------------------------------------------------------------------------
(* get_domain_info *)

\* subprocess.run(['whois', domain_name], capture_output=True, text=True,
\* timeout=15).  whois is what the subprocess did: whois.exc names the exception
\* run raises ("" when it returns), the other fields are the CompletedProcess.
subprocess_run(whois) ==
    IF whois.exc # "" THEN Raise(whois.exc, whois.msg)
    ELSE Return([returncode |-> whois.returncode, stdout |-> whois.stdout,
                 stderr |-> whois.stderr])

\* The if/elif chain on days_left
classify(days_left) ==
    IF days_left < 0 THEN "expired"
    ELSE IF days_left < 30 THEN "critical"
    ELSE IF days_left < 90 THEN "warning"
    ELSE "good"

\* The returned dicts.  A key a dict does not hold is a field the record lacks.
exit_code_record(domain_id, domain_name, stderr) ==
    [id |-> domain_id, domain |-> domain_name,
     error |-> LET error_msg == IF str_strip(stderr) # "" THEN str_strip(stderr)
                                ELSE "<whois command failed>"
               IN  "<exec error>: " \o error_msg,
     status |-> "error"]

not_found_record(domain_id, domain_name) ==
    [id |-> domain_id, domain |-> domain_name,
     error |-> "<no expiry time found in WHOIS>", status |-> "unknown"]

\* The mutant of bad_date_record: the unparsed text is also given as the date.
bad_date_record_with_date(domain_id, domain_name, expiry_date_str) ==
    [id |-> domain_id, domain |-> domain_name,
     expiration_date |-> expiry_date_str,
     error |-> "<cannot parse date>: " \o expiry_date_str, status |-> "error"]

bad_date_record(domain_id, domain_name, expiry_date_str) ==
    [id |-> domain_id, domain |-> domain_name,
     error |-> "<cannot parse date>: " \o expiry_date_str, status |-> "error"]

resolved_record(domain_id, domain_name, expiry_date_str, days_left) ==
    [id |-> domain_id, domain |-> domain_name,
     expiration_date |-> expiry_date_str, days_left |-> days_left,
     registrar |-> "<registrar not parsed>", status |-> classify(days_left),
     error |-> None]

timeout_record(domain_id, domain_name) ==
    [id |-> domain_id, domain |-> domain_name,
     error |-> "<WHOIS query timed out>", status |-> "timeout"]

no_whois_record(domain_id, domain_name) ==
    [id |-> domain_id, domain |-> domain_name,
     error |-> "<whois command not installed>", status |-> "error"]

unknown_error_record(domain_id, domain_name, msg) ==
    [id |-> domain_id, domain |-> domain_name,
     error |-> "<unknown error>: " \o msg, status |-> "error"]

\* The exception classes the model raises; each derives from Exception.
ExceptionSubclasses ==
    {"TimeoutExpired", "FileNotFoundError", "PermissionError", "ValueError",
     "AttributeError"}

\* The body of the try block
try_body(domain_id, domain_name, whois, clock) ==
    LET run == subprocess_run(whois)
    IN  IF run.kind = "raise" THEN run
        ELSE IF run.value.returncode # 0
        THEN Return(exit_code_record(domain_id, domain_name, run.value.stderr))
        ELSE LET expiry_date_str == parse_expiry_from_whois_output(run.value.stdout)
             IN  IF expiry_date_str = None \/ expiry_date_str = ""
                 THEN Return(not_found_record(domain_id, domain_name))
                 ELSE LET exp_date == strptime(expiry_date_str)
                          now == datetime_now(clock)
                      IN  IF exp_date.kind = "raise"
                          THEN Return(bad_date_record(domain_id, domain_name,
                                                      expiry_date_str))
                          ELSE IF now.kind = "raise" THEN now
                          ELSE Return(resolved_record(
                                   domain_id, domain_name, expiry_date_str,
                                   toordinal(exp_date.value) - toordinal(now.value)))

\* The mutant of except_clauses: the handlers without the last, catch-all one.
except_clauses_without_catch_all(exc, domain_id, domain_name) ==
    IF exc.type = "TimeoutExpired" THEN Return(timeout_record(domain_id, domain_name))
    ELSE IF exc.type = "FileNotFoundError"
    THEN Return(no_whois_record(domain_id, domain_name))
    ELSE exc

\* The mutant of except_clauses: a timeout reported as a plain error.
except_clauses_timeout_as_error(exc, domain_id, domain_name) ==
    IF exc.type = "FileNotFoundError"
    THEN Return(no_whois_record(domain_id, domain_name))
    ELSE Return(unknown_error_record(domain_id, domain_name, exc.msg))

\* The except clauses, in their order; an exception none of them names
\* leaves get_domain_info.
except_clauses(exc, domain_id, domain_name) ==
    IF exc.type = "TimeoutExpired" THEN Return(timeout_record(domain_id, domain_name))
    ELSE IF exc.type = "FileNotFoundError"
    THEN Return(no_whois_record(domain_id, domain_name))
    ELSE IF exc.type \in ExceptionSubclasses
    THEN Return(unknown_error_record(domain_id, domain_name, exc.msg))
    ELSE exc

\* The mutant of get_domain_info: the body without its try block.
get_domain_info_unguarded(domain_id, domain_name, whois, clock) ==
    try_body(domain_id, domain_name, whois, clock)

get_domain_info(domain_id, domain_name, whois, clock) ==
    LET body == try_body(domain_id, domain_name, whois, clock)
    IN  IF body.kind = "raise" THEN except_clauses(body, domain_id, domain_name)
        ELSE body

-----------------------------------------------------------------------------
(* The store: table domains (id INTEGER PRIMARY KEY AUTOINCREMENT,           *)
(* name TEXT UNIQUE NOT NULL)                                                *)

\* The number of rows ever inserted in a behaviour
MaxId == 2

\* SELECT id, name FROM domains
get_stored_domains == store

\* INSERT INTO domains (name): False on the IntegrityError of a name the table holds
add_stored_domain(domain_name) ==
    ~ \E i \in 1..Len(store) : store[i].name = domain_name

\* DELETE FROM domains WHERE id = ?
delete_stored_domain(domain_id) ==
    SelectSeq(store, LAMBDA row : row.id # domain_id)

-----------------------------------------------------------------------------
(* The inputs *)

\* The bodies of the POST requests
AddInputs ==
    { "", "localhost", "Example.COM", "http://example.com/path", " b.org ",
      "https://B.org", "hthttp://tp://x.y/z", "/b.org", "HTTPS://Example.com/a/b" }

\* What the whois subprocess does in one call
Raised(type, msg) ==
    [exc |-> type, msg |-> msg, returncode |-> 0, stdout |-> "", stderr |-> ""]
Exited(returncode, stdout, stderr) ==
    [exc |-> "", msg |-> "", returncode |-> returncode, stdout |-> stdout,
     stderr |-> stderr]

WhoisOutcomes ==
    { Raised("TimeoutExpired", "Command '['whois']' timed out after 15 seconds"),
      Raised("FileNotFoundError", "[Errno 2] No such file or directory: 'whois'"),
      Raised("PermissionError", "[Errno 13] Permission denied: 'whois'"),
      Exited(1, "", "connect: Network is unreachable\n"),
      Exited(2, "", " \n"),
      Exited(0, "", ""),
      Exited(0, "No match for domain\n", ""),
      Exited(0, "Domain Name: EXAMPLE.COM\nRegistry Expiry Date: 2026-08-13T04:00:00Z\n", ""),
      Exited(0, "paid-till: 2025.09.10\n", ""),
      Exited(0, "Expires: 14-08-2025\n", "") }

\* The dates of the wall clock
Todays == { [y |-> 2025, m |-> 8, d |-> 14], [y |-> 2025, m |-> 9, d |-> 11] }

NoResponse == [code |-> 0]
NotCalled == "NotCalled"

-----------------------------------------------------------------------------
(* The HTTP handlers.  Requests are served one at a time; every handler     *)
(* reads or writes the table in a single statement.                         *)

Init ==
    /\ store = <<>>
    /\ nextId = 1
    /\ today \in Todays
    /\ pc = "idle"
    /\ stored_domains = <<>>
    /\ results = <<>>
    /\ observed = <<>>
    /\ response = NoResponse
    /\ post = NoResponse
    /\ output = ""
    /\ parsed = NotCalled

get_vars == <<pc, stored_domains, results, observed, response>>
parse_vars == <<output, parsed>>

\* The mutant of normalize_domain: the path suffix is kept.
normalize_domain_keeping_path(domain) ==
    str_replace(str_replace(str_strip(str_lower(domain)), "http://", ""),
                "https://", "")

\* domain.lower().strip().replace('http://', '').replace('https://', '').split('/')[0]
normalize_domain(domain) ==
    str_split(str_replace(str_replace(str_strip(str_lower(domain)), "http://", ""),
                          "https://", ""),
              "/")[1]

\* POST /api/domains with the JSON body {"domain": raw}
add_domain(raw) ==
    /\ pc = "idle"
    /\ nextId <= MaxId
    /\ LET domain == normalize_domain(raw)
       IN  IF raw = ""
           THEN /\ post' = [code |-> 400, success |-> FALSE,
                            message |-> "<domain must not be empty>"]
                /\ UNCHANGED <<store, nextId>>
           ELSE IF domain = "" \/ ~ str_contains(domain, ".")
           THEN /\ post' = [code |-> 400, success |-> FALSE,
                            message |-> "<invalid domain format>"]
                /\ UNCHANGED <<store, nextId>>
           ELSE IF add_stored_domain(domain)
           THEN /\ store' = Append(store, [id |-> nextId, name |-> domain])
                /\ nextId' = nextId + 1
                /\ post' = [code |-> 200, success |-> TRUE, message |-> "<added>"]
           ELSE /\ post' = [code |-> 400, success |-> FALSE,
                            message |-> "<domain already exists>"]
                /\ UNCHANGED <<store, nextId>>
    /\ UNCHANGED <<today, get_vars, parse_vars>>

\* DELETE /api/domains/<domain_id>
delete_domain(domain_id) ==
    /\ pc = "idle"
    /\ store' = delete_stored_domain(domain_id)
    /\ UNCHANGED <<nextId, today, post, get_vars, parse_vars>>

\* GET /api/domains: stored_domains = get_stored_domains(); results = []
get_domains_begin ==
    /\ pc = "idle"
    /\ stored_domains' = get_stored_domains
    /\ results' = <<>>
    /\ observed' = <<>>
    /\ response' = NoResponse
    /\ pc' = "loop"
    /\ UNCHANGED <<store, nextId, today, post, parse_vars>>

\* One turn of the for loop: info = get_domain_info(d_id, d_name);
\* results.append(info).  An exception leaving get_domain_info ends the
\* request with a 500 response.
get_domains_step(whois) ==
    /\ pc = "loop"
    /\ Len(results) < Len(stored_domains)
    /\ LET row == stored_domains[Len(results) + 1]
           info == get_domain_info(row.id, row.name, whois, today)
       IN  /\ observed' = Append(observed, whois)
           /\ IF info.kind = "raise"
              THEN /\ response' = [code |-> 500]
                   /\ pc' = "done"
                   /\ UNCHANGED results
              ELSE /\ results' = Append(results, info.value)
                   /\ UNCHANGED <<response, pc>>
    /\ UNCHANGED <<store, nextId, today, post, stored_domains, parse_vars>>

\* return jsonify(results)
get_domains_return ==
    /\ pc = "loop"
    /\ Len(results) = Len(stored_domains)
    /\ response' = [code |-> 200, body |-> results]
    /\ pc' = "done"
    /\ UNCHANGED <<store, nextId, today, post, stored_domains, results, observed,
                   parse_vars>>

\* The response is sent and the locals of the request are dropped.
get_domains_end ==
    /\ pc = "done"
    /\ pc' = "idle"
    /\ stored_domains' = <<>>
    /\ results' = <<>>
    /\ observed' = <<>>
    /\ response' = NoResponse
    /\ UNCHANGED <<store, nextId, today, post, parse_vars>>

Next ==
    \/ \E raw \in AddInputs : add_domain(raw)
    \/ \E domain_id \in 1..MaxId : delete_domain(domain_id)
    \/ get_domains_begin
    \/ \E whois \in WhoisOutcomes : get_domains_step(whois)
    \/ get_domains_return
    \/ get_domains_end

Spec == Init /\ [][Next]_vars

-----------------------------------------------------------------------------
(* parse_expiry_from_whois_output called on its own *)

\* The number of lines of a composed whois output
MaxLines == 2

ParseYears == {2025, 2028}

ParseDates ==
    { date \in [y : ParseYears, m : {1, 2, 8, 12}, d : {1, 8, 12, 13, 14, 28, 29, 31}] :
          date.d <= DaysInMonth(date.y, date.m) }

\* n written with w decimal digits
RECURSIVE zfill(_, _)
zfill(n, w) == IF w = 0 THEN "" ELSE zfill(n \div 10, w - 1) \o Char(Digits, (n % 10) + 1)

Layouts == {"YYYY-MM-DD", "DD-MM-YYYY", "MM/DD/YYYY", "YYYY.MM.DD"}

\* A calendar date written in one of the four layouts
Token(date, layout) ==
    LET Y == zfill(date.y, 4)
        M == zfill(date.m, 2)
        D == zfill(date.d, 2)
    IN  CASE layout = "YYYY-MM-DD" -> Y \o "-" \o M \o "-" \o D
          [] layout = "DD-MM-YYYY" -> D \o "-" \o M \o "-" \o Y
          [] layout = "MM/DD/YYYY" -> M \o "/" \o D \o "/" \o Y
          [] layout = "YYYY.MM.DD" -> Y \o "." \o M \o "." \o D

Canonical(date) == Token(date, "YYYY-MM-DD")

ExpiryLine(token) == "Registry Expiry Date: " \o token

LinePool ==
    { "Domain Name: EXAMPLE.COM",
      "Updated Date: 2024-01-02",
      "Registrar Registration Expiration Date:",
      "Expires On: 08/14/2025 (renews 2026-01-31)",
      "paid-till: 2025.08.14",
      "RENEWAL DATE: 12-31-2026",
      "expire: 20250814",
      "Registry Expiry Date: 2027-03-04T04:00:00Z" }

RECURSIVE Texts(_)
Texts(n) ==
    IF n = 0 THEN {""}
    ELSE Texts(n - 1) \cup LinePool
           \cup {t \o "\n" \o line : t \in Texts(n - 1) \ {""}, line \in LinePool}

ParseInputs ==
    {ExpiryLine(Token(date, layout)) : date \in ParseDates, layout \in Layouts}
        \cup Texts(MaxLines)

InitParse ==
    /\ store = <<>>
    /\ nextId = 1
    /\ today \in Todays
    /\ pc = "idle"
    /\ stored_domains = <<>>
    /\ results = <<>>
    /\ observed = <<>>
    /\ response = NoResponse
    /\ post = NoResponse
    /\ output \in ParseInputs
    /\ parsed = NotCalled

ParseCall ==
    /\ parsed = NotCalled
    /\ parsed' = parse_expiry_from_whois_output(output)
    /\ UNCHANGED <<store, nextId, today, post, get_vars, output>>

SpecParse == InitParse /\ [][ParseCall]_vars

-----------------------------------------------------------------------------
(* What the claims speak of *)

DateTiers == {"expired", "critical", "warning", "good"}
FailureTiers == {"error", "unknown", "timeout"}

\* A key the dict holds with a value other than None
Present(record, key) == key \in DOMAIN record /\ record[key] # None

\* The whois command exited with code 0
ExitedZero(whois) == whois.exc = "" /\ whois.returncode = 0

\* ... and an expiration date was located in its output
Located(whois) ==
    ExitedZero(whois) /\ parse_expiry_from_whois_output(whois.stdout) # None

\* ... and that date is a calendar date
ValidExpiry(whois) ==
    /\ ExitedZero(whois)
    /\ LET date_str == parse_expiry_from_whois_output(whois.stdout)
       IN  date_str # None /\ strptime(date_str).kind = "return"

ExpiryOf(whois) == strptime(parse_expiry_from_whois_output(whois.stdout)).value

\* The lower of two dates, read as (year, month, day)
Before(a, b) ==
    \/ a.y < b.y
    \/ a.y = b.y /\ a.m < b.m
    \/ a.y = b.y /\ a.m = b.m /\ a.d < b.d

\* The tier the thresholds give a number of days
Tier(days) ==
    CASE days < 0 -> "expired"
      [] days \in 0..29 -> "critical"
      [] days \in 30..89 -> "warning"
      [] days >= 90 -> "good"

\* The calls of get_domain_info of the request in progress that have returned
Calls == 1..Len(results)

-----------------------------------------------------------------------------
(* C1: a call of get_domain_info in which whois exits with code 0 and the   *)
(* parser returns a valid calendar date returns a fully populated record:   *)
(* expiration_date is that date, days_left is an integer, status is the     *)
(* tier the classifier gives it, and error is null.                         *)
C1_FullyPopulated ==
    \A i \in Calls :
        ValidExpiry(observed[i]) =>
            /\ {"expiration_date", "days_left", "status", "error"}
                   \subseteq DOMAIN results[i]
            /\ results[i].expiration_date
                   = parse_expiry_from_whois_output(observed[i].stdout)
            /\ results[i].days_left \in Int
            /\ results[i].status \in DateTiers
            /\ results[i].status = classify(results[i].days_left)
            /\ results[i].error = None

-----------------------------------------------------------------------------
(* C3: the status is the tier of the days left: a domain whose expiration   *)
(* date lies d days after today is expired for d < 0, critical for 0..29,   *)
(* warning for 30..89 and good for d >= 90.                                 *)
C3_StatusIsTierOfDaysLeft ==
    \A i \in Calls :
        ValidExpiry(observed[i]) =>
            results[i].status
                = Tier(toordinal(ExpiryOf(observed[i])) - toordinal(today))

-----------------------------------------------------------------------------
(* C4: a calendar date written in any of the four layouts YYYY-MM-DD,       *)
(* DD-MM-YYYY, MM/DD/YYYY and YYYY.MM.DD on an expiry-keyword line is       *)
(* returned as the same canonical YYYY-MM-DD text.                          *)
C4_AllLayoutsNormalize ==
    \A date \in ParseDates, layout \in Layouts :
        (output = ExpiryLine(Token(date, layout)) /\ parsed # NotCalled)
            => parsed = Canonical(date)

-----------------------------------------------------------------------------
(* C5: get_domain_info is total: whatever the whois subprocess does, no     *)
(* exception reaches the caller, every call returns a record that carries  *)
(* a status, and the record of a failed resolution carries a non-null      *)
(* error.                                                                   *)
FailedResolution(whois) == ~ ValidExpiry(whois)

C5_Total ==
    /\ response.code # 500
    /\ Len(results) = Len(observed)
    /\ \A i \in Calls :
           /\ "status" \in DOMAIN results[i]
           /\ FailedResolution(observed[i]) => Present(results[i], "error")

\* A batch in which one call failed inside subprocess.run with an exception no
\* handler names, and another one raised after its date had been parsed.
C5_Witness ==
    \E i, j \in Calls :
        /\ observed[i].exc = "PermissionError"
        /\ results[i].status = "error"
        /\ ValidExpiry(observed[j])
        /\ Present(results[j], "error")

-----------------------------------------------------------------------------
(* C6: each kind of failure has its status: a timeout of the subprocess    *)
(* gives timeout; exit code 0 with no expiration date located gives        *)
(* unknown, with a non-null error and no expiration date; a non-zero exit  *)
(* code, a missing binary, any other exception of the subprocess and a     *)
(* date token out of calendar range give error.                            *)
C6_FailureStatus ==
    \A i \in Calls :
        LET whois == observed[i]
            record == results[i]
            located == Located(whois)
        IN  /\ whois.exc = "TimeoutExpired" => record.status = "timeout"
            /\ (ExitedZero(whois) /\ ~ located) =>
                   /\ record.status = "unknown"
                   /\ Present(record, "error")
                   /\ ~ Present(record, "expiration_date")
            /\ (whois.exc = "" /\ whois.returncode # 0) => record.status = "error"
            /\ (whois.exc \notin {"", "TimeoutExpired"}) => record.status = "error"
            /\ (located /\ ~ ValidExpiry(whois)) => record.status = "error"

\* A batch with a timeout and a date token out of calendar range.
C6_Witness ==
    \E i, j \in Calls :
        /\ observed[i].exc = "TimeoutExpired"
        /\ results[i].status = "timeout"
        /\ Located(observed[j]) /\ ~ ValidExpiry(observed[j])
        /\ results[j].status = "error"

-----------------------------------------------------------------------------
(* C8: every returned record has exactly one of an expiration date and a   *)
(* non-null error; it has a status; the status is error, unknown or        *)
(* timeout exactly when the error is there, and expired, critical,         *)
(* warning or good exactly when the expiration date is there.              *)
C8_RecordShape ==
    \A i \in Calls :
        LET record == results[i]
        IN  /\ Present(record, "expiration_date") # Present(record, "error")
            /\ "status" \in DOMAIN record
            /\ (record.status \in FailureTiers) <=> Present(record, "error")
            /\ (record.status \in DateTiers) <=> Present(record, "expiration_date")

\* A response whose records come from an unparsable date and a non-zero exit.
C8_Witness ==
    /\ response.code = 200
    /\ \E i, j \in Calls :
           /\ Located(observed[i]) /\ ~ ValidExpiry(observed[i])
           /\ observed[j].returncode # 0
           /\ Present(results[i], "error") /\ Present(results[j], "error")

-----------------------------------------------------------------------------
(* C9: a batch request resolves the fetched rows one by one, each once,    *)
(* and answers with one record per row, in the order of the rows, the      *)
(* i-th record carrying the id and the name of the i-th row; a row whose   *)
(* resolution fails or times out does not end the batch, and its record    *)
(* carries its own error and status.                                       *)
C9_Batch ==
    /\ Len(observed) = Len(results)
    /\ Len(results) <= Len(stored_domains)
    /\ \A i \in Calls :
           /\ results[i].id = stored_domains[i].id
           /\ results[i].domain = stored_domains[i].name
           /\ FailedResolution(observed[i]) =>
                  /\ Present(results[i], "error")
                  /\ results[i].status \in FailureTiers
           /\ (observed[i].exc = "" /\ str_strip(observed[i].stderr) # "") =>
                  str_contains(results[i].error, str_strip(observed[i].stderr))
    /\ pc = "done" =>
           /\ response.code = 200
           /\ response.body = results
           /\ Len(response.body) = Len(stored_domains)

\* The first of two rows timed out, and the second one was resolved after it.
C9_Witness ==
    /\ pc = "done"
    /\ Len(stored_domains) = 2
    /\ response.code = 200
    /\ observed[1].exc = "TimeoutExpired"
    /\ response.body[1].status = "timeout"
    /\ response.body[2].status = "unknown"
    /\ response.body[2].id = stored_domains[2].id

-----------------------------------------------------------------------------
(* C10: every name in the store is lower-cased, holds neither http:// nor  *)
(* https://, holds no '/', and holds a '.'; an add request whose input     *)
(* does not normalize to such a name is rejected and leaves the store      *)
(* unchanged.                                                              *)
DomainName(name) ==
    /\ name = str_lower(name)
    /\ ~ str_contains(name, "http://")
    /\ ~ str_contains(name, "https://")
    /\ ~ str_contains(name, "/")
    /\ str_contains(name, ".")

C10_StoredNamesValid ==
    /\ [](\A i \in 1..Len(store) : DomainName(store[i].name))
    /\ [][\A raw \in AddInputs :
              (add_domain(raw) /\ ~ DomainName(normalize_domain(raw)))
                  => (store' = store /\ post'.code = 400 /\ ~ post'.success)]_vars

\* A name was stored from an input with a scheme and a path, and a later
\* request was rejected for its format.
C10_Witness ==
    /\ \E i \in 1..Len(store) : store[i].name = "example.com"
    /\ post.code = 400
    /\ post.message = "<invalid domain format>"

-----------------------------------------------------------------------------
(* C7: the line that decides the result of parse_expiry_from_whois_output  *)

Least(S) == CHOOSE x \in S : \A y \in S : x <= y

KeywordLines(lines) == {i \in 1..Len(lines) : has_expiry_keyword(lines[i])}

MatchingPatterns(line) ==
    {k \in 1..Len(date_patterns) : re_search(date_patterns[k], line) # None}

\* What one line gives: the match of the first pattern, in the order of
\* date_patterns, that matches somewhere on the line, rewritten by the branch
\* of that pattern; None when no pattern matches.
DecidedBy(line) ==
    IF MatchingPatterns(line) = {} THEN None
    ELSE normalize_match(
             re_search(date_patterns[Least(MatchingPatterns(line))], line))

DatedKeywordLines(lines) ==
    {i \in KeywordLines(lines) : MatchingPatterns(lines[i]) # {}}

(* C7, as claimed: the first line that contains an expiry keyword decides   *)
(* alone: the result is the first pattern match on that line, and None     *)
(* when that line holds no date token, whatever the later lines contain.   *)
C7_FirstKeywordLineDecides ==
    parsed # NotCalled =>
        LET lines == str_split(output, "\n")
        IN  parsed = IF KeywordLines(lines) = {} THEN None
                     ELSE DecidedBy(lines[Least(KeywordLines(lines))])

(* C7, amended: the first line that contains an expiry keyword and a date  *)
(* token decides: the result is the first pattern match on that line, in   *)
(* the order of the patterns; keyword lines without a date token are       *)
(* passed over, and the result is None only when no keyword line holds a   *)
(* date token.                                                             *)
C7_FirstDatedKeywordLineDecides ==
    parsed # NotCalled =>
        LET lines == str_split(output, "\n")
        IN  parsed = IF DatedKeywordLines(lines) = {} THEN None
                     ELSE DecidedBy(lines[Least(DatedKeywordLines(lines))])

\* The first keyword line holds no date token, a later keyword line holds
\* two, and the result is the match of the earlier pattern on that later line.
C7_Witness ==
    /\ parsed \notin {NotCalled, None}
    /\ LET lines == str_split(output, "\n")
       IN  /\ Least(KeywordLines(lines)) < Least(DatedKeywordLines(lines))
           /\ Cardinality(MatchingPatterns(lines[Least(DatedKeywordLines(lines))])) = 2
           /\ parsed = "2026-01-31"

====
